---- MODULE Spec2Model ----
(***************************************************************************)
(* Podcast generator: the workflow state machine of app.py (steps 2..7,    *)
(* held in st.session_state) and the podcast store of database.py.         *)
(*                                                                         *)
(* Strings are sequences of tokens, so that strip, startswith, replace and *)
(* concatenation are computed and not looked up.  An AudioSegment is the   *)
(* sequence of its pieces (synthesized speech or silence); its length in   *)
(* milliseconds is the sum of the pieces' durations.                       *)
(***************************************************************************)
EXTENDS Integers, Sequences, FiniteSets, TLC

\* ------------------------------------------------------------------ bounds
\* longest script the editor may grow to (insert-below is refused beyond it)
MaxLines == 2
\* the most edits (of lines, of voices and settings, regenerations) of one session
MaxEdits == 1
\* longest clip list of the assembly specification
MaxClips == 4
\* the most rows the progress table may hold ("Save Progress" is refused beyond it)
MaxSnapshots == 2
\* the most podcasts earlier sessions left in the library
MaxPodcasts == 3

\* ----------------------------------------------------------- small helpers
Range(s) == {s[i] : i \in 1..Len(s)}

\* str.startswith(prefix)
StartsWith(text, prefix) ==
    /\ Len(text) >= Len(prefix)
    /\ SubSeq(text, 1, Len(prefix)) = prefix

\* str.strip(): leading and trailing white space removed
RECURSIVE LStrip(_)
LStrip(s) == IF s # <<>> /\ Head(s) \in {" ", "\n"} THEN LStrip(Tail(s)) ELSE s

RECURSIVE RStrip(_)
RStrip(s) ==
    IF s # <<>> /\ s[Len(s)] \in {" ", "\n"} THEN RStrip(SubSeq(s, 1, Len(s) - 1)) ELSE s

Strip(s) == RStrip(LStrip(s))

\* str.split(sep): the pieces between the occurrences of the token sep
RECURSIVE SplitOn(_, _)
SplitOn(s, sep) ==
    IF \A i \in 1..Len(s) : s[i] # sep
    THEN << s >>
    ELSE LET i == CHOOSE k \in 1..Len(s) : s[k] = sep /\ \A j \in 1..(k - 1) : s[j] # sep
         IN  << SubSeq(s, 1, i - 1) >> \o SplitOn(SubSeq(s, i + 1, Len(s)), sep)

\* str.split(sep, 1): the part before the first sep and the part after it
SplitOnce(s, sep) ==
    LET i == CHOOSE k \in 1..Len(s) : s[k] = sep /\ \A j \in 1..(k - 1) : s[j] # sep
    IN  << SubSeq(s, 1, i - 1), SubSeq(s, i + 1, Len(s)) >>

\* the markers 'Intro:' and 'Outro:' as token sequences
IntroMarker == <<"Intro", ":">>
OutroMarker == <<"Outro", ":">>

\* is_intro or is_outro of step_3
HasMarker(text) == StartsWith(text, IntroMarker) \/ StartsWith(text, OutroMarker)

\* str.replace(marker, ''): every occurrence of the marker removed, left to right
RECURSIVE RemoveAll(_, _)
RemoveAll(s, marker) ==
    IF s = <<>> THEN <<>>
    ELSE IF StartsWith(s, marker)
         THEN RemoveAll(SubSeq(s, Len(marker) + 1, Len(s)), marker)
         ELSE << Head(s) >> \o RemoveAll(Tail(s), marker)

\* speaker names, as token sequences
Presenter == << "Presenter" >>
Host1 == << "Host 1" >>
Blank == <<>>
Speakers == {Presenter, Host1, Blank}

\* -------------------------------------------------------- voices, settings
\* the voice directory get_available_voices returns to the sessions of the
\* workflow specification, in its order: name -> voice_id
AvailableVoices ==
    << [name |-> <<"Rachel">>, voice_id |-> "v-rachel"],
       [name |-> <<"Eric", "Pro">>, voice_id |-> "v-eric"] >>

\* the directory get_available_voices returns when the request for the voices fails
FallbackVoices == << [name |-> <<"Default Voice">>, voice_id |-> "21m00Tcm4TlvDq8ikWAM"] >>

\* the directories get_available_voices may return: the fallback, one voice,
\* the directory of the workflow specification, two voices whose names both
\* hold "Eric", and one where the voice holding "Hamid" comes second
VoiceDirectories ==
    { FallbackVoices,
      << [name |-> << "Rachel" >>, voice_id |-> "v-rachel"] >>,
      AvailableVoices,
      << [name |-> << "Eric", "Pro" >>, voice_id |-> "v-eric"],
         [name |-> << "Eric" >>, voice_id |-> "v-eric-2"] >>,
      << [name |-> << "Rachel" >>, voice_id |-> "v-rachel"],
         [name |-> << "Hamid", "Jr" >>, voice_id |-> "v-hamid"] >> }

\* every voice name a selectbox of Configure may offer
VoiceNameInputs == UNION { {d[i].name : i \in 1..Len(d)} : d \in VoiceDirectories }

\* default_voices of step_4: speaker -> preferred voice name
DefaultVoiceName(podcaster) ==
    CASE podcaster = << "Host 1" >> -> "Hamid"
      [] podcaster = << "Presenter" >> -> "Eric"
      [] podcaster = << "Host 2" >> -> "Matilda"

HasDefaultVoice(podcaster) == podcaster \in {<< "Host 1" >>, << "Presenter" >>, << "Host 2" >>}

\* a speaker without a key in config['podcasters'] / ['voice_settings_per_speaker']
NoVoice == <<>>
NoSettings == [stability |-> -1, similarity_boost |-> -1, style |-> -1]

\* the settings a speaker starts with, in tenths: 0.5, 0.8, 0.1
DefaultSettings == [stability |-> 5, similarity_boost |-> 8, style |-> 1]

\* the duration of the pause appended after each clip, in ms
PauseMs == 300

\* ------------------------------------------------------------------- state
VARIABLES
    script,             \* st.session_state.script: the lines, in order
    config,             \* st.session_state.config: podcasters and per-speaker settings
    audio_segments,     \* st.session_state.audio_segments: (label, audio) per clip
    current_step,       \* st.session_state.current_step, 2..7
    script_loaded,      \* st.session_state.script_loaded (absent = FALSE)
    podcast_finalized,  \* st.session_state.podcast_finalized (absent = FALSE)
    rendered,           \* the step whose widgets the last run drew
    input_format,       \* the radio of step_2
    company,            \* the Company text input of step_6
    podcast_title,      \* the Podcast Title text input of step_6
    podcasts,           \* table podcasts: rows (id, title)
    podcast_segments,   \* table podcast_segments: rows (podcast_id, segment_type, audio_data)
    podcast_seq,        \* the largest id AUTOINCREMENT has given a podcast
    progress,           \* table progress: rows (id, name, script, config, audio_segments)
    progress_seq,       \* the largest id AUTOINCREMENT has given a progress row
    available_voices,   \* st.session_state.available_voices: the ordered voice directory
    edits,              \* the edits made so far in the session
    lastOp              \* the handler that ran last and how it ended

vars == << script, config, audio_segments, current_step, script_loaded,
           podcast_finalized, rendered, input_format, company, podcast_title,
           podcasts, podcast_segments, podcast_seq, progress, progress_seq,
           available_voices, edits, lastOp >>

session == << script, config, audio_segments, current_step, script_loaded, podcast_finalized >>

database == << podcasts, podcast_segments, podcast_seq, progress, progress_seq >>

\* list(st.session_state.available_voices.keys())
VoiceNames == [i \in 1..Len(available_voices) |-> available_voices[i].name]

\* available_voices[voice_name]['voice_id']
VoiceId(voice_name) ==
    available_voices[CHOOSE i \in 1..Len(available_voices) :
                        available_voices[i].name = voice_name].voice_id

\* init_session_state, and the tables init_db creates
Init ==
    /\ script = <<>>
    /\ config = [podcasters |-> [p \in Speakers |-> NoVoice],
                 has_vsps |-> FALSE,
                 voice_settings_per_speaker |-> [p \in Speakers |-> NoSettings]]
    /\ audio_segments = <<>>
    /\ current_step = 2
    /\ script_loaded = FALSE
    /\ podcast_finalized = FALSE
    /\ rendered = 2
    /\ input_format = "Text Format"
    /\ company = <<>>
    /\ podcast_title = <<>>
    /\ podcasts = {}
    /\ podcast_segments = {}
    /\ podcast_seq = 0
    /\ progress = {}
    /\ progress_seq = 0
    /\ available_voices = AvailableVoices
    /\ edits = 0
    /\ lastOp = [op |-> "init", ok |-> TRUE, arg |-> 0]

\* ---------------------------------------------------------- script inputs
\* a line of the script: the dict {'speaker', 'text', 'uid'}; uid 0 = no 'uid' key
Line(speaker, text, uid) == [speaker |-> speaker, text |-> text, uid |-> uid]

Hi == << "Hi" >>
IntroHi == << "Intro", ":", "Hi" >>

\* an item of a JSON list, as json.loads returns it
Item(is_dict, has_speaker, has_text, speaker, text) ==
    [is_dict |-> is_dict, has_speaker |-> has_speaker, has_text |-> has_text,
     speaker |-> speaker, text |-> text]

\* the documents pasted or uploaded as JSON: undecodable, not a list, a list
\* with a record lacking 'text', the empty list, and a well-formed script
JsonInputs ==
    { [decodes |-> FALSE, is_list |-> FALSE, items |-> <<>>],
      [decodes |-> TRUE, is_list |-> FALSE, items |-> <<>>],
      [decodes |-> TRUE, is_list |-> TRUE,
       items |-> << Item(TRUE, TRUE, FALSE, Host1, <<>>) >>],
      [decodes |-> TRUE, is_list |-> TRUE, items |-> <<>>],
      [decodes |-> TRUE, is_list |-> TRUE,
       items |-> << Item(TRUE, TRUE, TRUE, Host1, IntroHi) >>] }

\* the section delimiter of the text format
Delimiter == "-------------"

\* the texts pasted in the text format
TextInputs ==
    { << " ", Delimiter, "\n" >>,
      << "Intro", ":", "Hi", "\n", Delimiter, "\n", "Host 1", ":", " ", "Hi" >>,
      << "Host 1", " ", "Hi" >> }

\* isinstance(script_data, list) and all(isinstance(item, dict) and 'speaker' in
\* item and 'text' in item for item in script_data)
ValidScript(doc) ==
    /\ doc.is_list
    /\ \A i \in 1..Len(doc.items) :
          doc.items[i].is_dict /\ doc.items[i].has_speaker /\ doc.items[i].has_text

\* the list the JSON paths store as the script
JsonScript(doc) ==
    [i \in 1..Len(doc.items) |-> Line(doc.items[i].speaker, doc.items[i].text, 0)]

\* the speaker sections of the text format, line by line
RECURSIVE ParseLines(_)
ParseLines(lines) ==
    IF lines = <<>> THEN <<>>
    ELSE LET line == Strip(Head(lines))
             parts == SplitOnce(line, ":")
             speaker == IF Strip(parts[1]) \in {<< "Intro" >>, << "Outro" >>}
                        THEN Presenter
                        ELSE Strip(parts[1])
         IN  IF line = <<>> \/ ":" \notin Range(line)
             THEN ParseLines(Tail(lines))
             ELSE << Line(speaker, Strip(parts[2]), 0) >> \o ParseLines(Tail(lines))

\* one section of the text format
ParseSection(raw_section) ==
    LET section == Strip(raw_section)
    IN  IF section = <<>> THEN <<>>
        ELSE IF StartsWith(section, IntroMarker)
        THEN << Line(Presenter, Strip(RemoveAll(section, IntroMarker)), 0) >>
        ELSE IF StartsWith(section, OutroMarker)
        THEN << Line(Presenter, Strip(RemoveAll(section, OutroMarker)), 0) >>
        ELSE ParseLines(SplitOn(section, "\n"))

RECURSIVE ParseSections(_)
ParseSections(sections) ==
    IF sections = <<>> THEN <<>>
    ELSE ParseSection(Head(sections)) \o ParseSections(Tail(sections))

\* script_data of "Convert and Load Script"
ParseText(text_input) == ParseSections(SplitOn(text_input, Delimiter))

\* ------------------------------------------------------- what a run draws
\* an identifier that is the same at every call
FreshUid_Same(scr) == 1

\* str(uuid.uuid4()): an identifier no line of the script carries
FreshUid(scr) ==
    CHOOSE u \in 1..(Len(scr) + 1) :
        /\ \A i \in 1..Len(scr) : scr[i].uid # u
        /\ \A v \in 1..(u - 1) : \E i \in 1..Len(scr) : scr[i].uid = v

\* step_3: every dialog without a 'uid' gets one, in order
RECURSIVE AssignUids(_, _)
AssignUids(scr, i) ==
    IF i > Len(scr) THEN scr
    ELSE IF scr[i].uid = 0
         THEN AssignUids([scr EXCEPT ![i].uid = FreshUid(scr)], i + 1)
         ELSE AssignUids(scr, i + 1)

\* step_3, the loop over the lines: the speaker is forced to Presenter when the
\* text the line holds starts with a marker, else taken from the speaker widget;
\* then the text is taken from the text widget
EditorRun(scr, speaker_widget, text_widget) ==
    [i \in 1..Len(scr) |->
        [scr[i] EXCEPT
            !.speaker = IF HasMarker(scr[i].text) THEN Presenter ELSE speaker_widget[i],
            !.text = text_widget[i]]]

\* step_3 drawn with no widget touched: each widget shows its line's value
Step3Render(scr) ==
    LET withUids == AssignUids(scr, 1)
    IN  EditorRun(withUids,
                  [i \in 1..Len(withUids) |-> withUids[i].speaker],
                  [i \in 1..Len(withUids) |-> withUids[i].text])

\* podcasters of step_4
Podcasters(scr) == {scr[i].speaker : i \in 1..Len(scr)}

\* the voice the directory lists last
LastVoice == VoiceNames[Len(VoiceNames)]

\* the first available voice
FirstVoice == VoiceNames[1]

\* matching_voice of step_4: the first available voice whose name contains the
\* default name, else the first available voice
MatchingVoice(podcaster) ==
    LET hits == {i \in 1..Len(VoiceNames) : DefaultVoiceName(podcaster) \in Range(VoiceNames[i])}
    IN  IF hits = {} THEN FirstVoice
        ELSE VoiceNames[CHOOSE i \in hits : \A j \in hits : i <= j]

\* the voice step_4 leaves a podcaster with, before the selectbox is touched
EnsuredVoice(podcaster, current) ==
    LET initial == IF current # NoVoice THEN current
                   ELSE IF HasDefaultVoice(podcaster) THEN MatchingVoice(podcaster)
                   ELSE FirstVoice
    IN  IF initial \in Range(VoiceNames) THEN initial ELSE FirstVoice

\* step_4 drawn with no widget touched
Step4Render(cfg, scr) ==
    [podcasters |->
        [p \in Speakers |->
            IF p \in Podcasters(scr) THEN EnsuredVoice(p, cfg.podcasters[p])
            ELSE cfg.podcasters[p]],
     has_vsps |-> TRUE,
     voice_settings_per_speaker |->
        [p \in Speakers |->
            IF p \in Podcasters(scr) /\ cfg.voice_settings_per_speaker[p] = NoSettings
            THEN DefaultSettings
            ELSE cfg.voice_settings_per_speaker[p]]]

\* one run of main() for the step, after the handler left (scr, cfg): the
\* session state the run leaves and the widgets it keeps
Run(step, scr, cfg) ==
    /\ current_step' = step
    /\ rendered' = step
    /\ script' = IF step = 3 THEN Step3Render(scr) ELSE scr
    /\ config' = IF step = 4 THEN Step4Render(cfg, scr) ELSE cfg
    /\ input_format' = IF step = 2 /\ rendered = 2 THEN input_format ELSE "Text Format"
    /\ company' = IF step = 6 /\ rendered = 6 THEN company ELSE <<>>
    /\ podcast_title' = IF step = 6 /\ rendered = 6 THEN podcast_title ELSE <<>>

\* the widgets of step k are on screen and the next run dispatches to step k
OnStep(k) == rendered = k /\ current_step = k

\* the handler did not edit anything
Done(op, ok) ==
    /\ lastOp' = [op |-> op, ok |-> ok, arg |-> 0]
    /\ UNCHANGED edits

\* the handler made an edit
Edited(op, arg) ==
    /\ edits < MaxEdits
    /\ edits' = edits + 1
    /\ lastOp' = [op |-> op, ok |-> TRUE, arg |-> arg]

\* ------------------------------------------------------------- navigation
\* is_enabled of main: every sidebar button is drawn enabled, in every run
is_enabled(k) == TRUE

\* a sidebar button that empties the clip cache
Sidebar_ClearsCache(k) ==
    /\ is_enabled(k)
    /\ Run(k, script, config)
    /\ audio_segments' = <<>>
    /\ Done("navigate", TRUE)
    /\ UNCHANGED << script_loaded, podcast_finalized, database, available_voices >>

\* main: a sidebar button
Sidebar(k) ==
    /\ is_enabled(k)
    /\ Run(k, script, config)
    /\ Done("navigate", TRUE)
    /\ UNCHANGED << audio_segments, script_loaded, podcast_finalized, database, available_voices >>

\* any widget event on a screen that current_step has moved away from
Rerun ==
    /\ rendered # current_step
    /\ Run(current_step, script, config)
    /\ Done("navigate", TRUE)
    /\ UNCHANGED << audio_segments, script_loaded, podcast_finalized, database, available_voices >>

\* ------------------------------------------------------ step_2: the loads
SelectFormat(format) ==
    /\ OnStep(2)
    /\ format # input_format
    /\ input_format' = format
    /\ Done("input", TRUE)
    /\ UNCHANGED << session, rendered, company, podcast_title, database, available_voices >>

\* "Load Script"
LoadJson(doc) ==
    /\ OnStep(2)
    /\ input_format = "JSON"
    /\ IF doc.decodes /\ ValidScript(doc)
       THEN /\ script' = JsonScript(doc)
            /\ script_loaded' = TRUE
            /\ Done("load_json", TRUE)
       ELSE /\ UNCHANGED << script, script_loaded >>
            /\ Done("load_json", FALSE)
    /\ UNCHANGED << config, audio_segments, current_step, podcast_finalized, rendered,
                    input_format, company, podcast_title, database, available_voices >>

\* a conversion that stores what it parsed before it tests it
LoadText_StoresFirst(text_input) ==
    /\ OnStep(2)
    /\ input_format = "Text Format"
    /\ script' = ParseText(text_input)
    /\ IF ParseText(text_input) # <<>>
       THEN /\ script_loaded' = TRUE
            /\ Done("load_text", TRUE)
       ELSE /\ UNCHANGED script_loaded
            /\ Done("load_text", FALSE)
    /\ UNCHANGED << config, audio_segments, current_step, podcast_finalized, rendered,
                    input_format, company, podcast_title, database, available_voices >>

\* "Convert and Load Script"
LoadText(text_input) ==
    /\ OnStep(2)
    /\ input_format = "Text Format"
    /\ IF ParseText(text_input) # <<>>
       THEN /\ script' = ParseText(text_input)
            /\ script_loaded' = TRUE
            /\ Done("load_text", TRUE)
       ELSE /\ UNCHANGED << script, script_loaded >>
            /\ Done("load_text", FALSE)
    /\ UNCHANGED << config, audio_segments, current_step, podcast_finalized, rendered,
                    input_format, company, podcast_title, database, available_voices >>

\* "Import Script from JSON": a valid file also moves current_step to 3, and
\* the run goes on drawing step 2
ImportFile(doc) ==
    /\ OnStep(2)
    /\ IF doc.decodes /\ ValidScript(doc)
       THEN /\ script' = JsonScript(doc)
            /\ current_step' = 3
            /\ Done("import_file", TRUE)
       ELSE /\ UNCHANGED << script, current_step >>
            /\ Done("import_file", FALSE)
    /\ UNCHANGED << config, audio_segments, script_loaded, podcast_finalized, rendered,
                    input_format, company, podcast_title, database, available_voices >>

\* the button "Proceed to Edit Script" is drawn
ProceedToEditEnabled ==
    /\ OnStep(2)
    /\ input_format = "Text Format"
    /\ script_loaded

\* "Proceed to Edit Script": update_step(3)
ProceedToEdit ==
    /\ ProceedToEditEnabled
    /\ Run(3, script, config)
    /\ Done("navigate", TRUE)
    /\ UNCHANGED << audio_segments, script_loaded, podcast_finalized, database, available_voices >>

\* ------------------------------------------------- step_3: the script editor
\* what the operator may type as a speaker, and as a text
SpeakerInputs == {Presenter, Host1}
TextEdits == {Hi, IntroHi}

SpeakerWidgets(scr) == [i \in 1..Len(scr) |-> scr[i].speaker]
TextWidgets(scr) == [i \in 1..Len(scr) |-> scr[i].text]

\* the Speaker input of dialog i (disabled while the line's text has a marker)
EditSpeaker(i, speaker) ==
    /\ OnStep(3)
    /\ i \in 1..Len(script)
    /\ ~HasMarker(script[i].text)
    /\ speaker # script[i].speaker
    /\ script' = EditorRun(script, [SpeakerWidgets(script) EXCEPT ![i] = speaker],
                           TextWidgets(script))
    /\ Edited("edit_speaker", 0)
    /\ UNCHANGED << config, audio_segments, current_step, script_loaded, podcast_finalized,
                    rendered, input_format, company, podcast_title, database, available_voices >>

\* the Dialog text area of dialog i
EditText(i, text) ==
    /\ OnStep(3)
    /\ i \in 1..Len(script)
    /\ text # script[i].text
    /\ script' = EditorRun(script, SpeakerWidgets(script),
                           [TextWidgets(script) EXCEPT ![i] = text])
    /\ Edited("edit_text", 0)
    /\ UNCHANGED << config, audio_segments, current_step, script_loaded, podcast_finalized,
                    rendered, input_format, company, podcast_title, database, available_voices >>

\* list.insert(i+1, item), i counted from 0: the item lands after position i
InsertAfter(scr, i, item) == SubSeq(scr, 1, i) \o << item >> \o SubSeq(scr, i + 1, Len(scr))

\* list.pop(i)
RemoveAt(scr, i) == SubSeq(scr, 1, i - 1) \o SubSeq(scr, i + 1, Len(scr))

\* "Add Dialog Below" of dialog i, then st.rerun()
AddBelow(i) ==
    /\ OnStep(3)
    /\ i \in 1..Len(script)
    /\ Len(script) < MaxLines
    /\ Run(3, InsertAfter(script, i, Line(Blank, <<>>, FreshUid(script))), config)
    /\ Edited("add_below", i)
    /\ UNCHANGED << audio_segments, script_loaded, podcast_finalized, database, available_voices >>

\* "Delete Dialog" of dialog i, then st.rerun()
DeleteDialog(i) ==
    /\ OnStep(3)
    /\ i \in 1..Len(script)
    /\ Run(3, RemoveAt(script, i), config)
    /\ Edited("delete_dialog", i)
    /\ UNCHANGED << audio_segments, script_loaded, podcast_finalized, database, available_voices >>

\* "Proceed to Configuration": update_step(4)
ProceedToConfig ==
    /\ OnStep(3)
    /\ Run(4, script, config)
    /\ Done("navigate", TRUE)
    /\ UNCHANGED << audio_segments, script_loaded, podcast_finalized, database, available_voices >>

\* ------------------------------------------------ step_4: the voice settings
\* the slider positions the operator may move a speaker's settings to
SettingsInputs == {[stability |-> 3, similarity_boost |-> 8, style |-> 1]}

\* the voice selectbox of a podcaster
SetVoice(podcaster, voice) ==
    /\ OnStep(4)
    /\ podcaster \in Podcasters(script)
    /\ voice \in Range(VoiceNames)
    /\ voice # config.podcasters[podcaster]
    /\ Run(4, script, [config EXCEPT !.podcasters[podcaster] = voice])
    /\ Edited("set_voice", 0)
    /\ UNCHANGED << audio_segments, script_loaded, podcast_finalized, database, available_voices >>

\* the three sliders of a podcaster
SetParams(podcaster, settings) ==
    /\ OnStep(4)
    /\ podcaster \in Podcasters(script)
    /\ settings # config.voice_settings_per_speaker[podcaster]
    /\ Run(4, script, [config EXCEPT !.voice_settings_per_speaker[podcaster] = settings])
    /\ Edited("set_params", 0)
    /\ UNCHANGED << audio_segments, script_loaded, podcast_finalized, database, available_voices >>

\* "Proceed to Audio Generation": update_step(5)
ProceedToAudio ==
    /\ OnStep(4)
    /\ Run(5, script, config)
    /\ Done("navigate", TRUE)
    /\ UNCHANGED << audio_segments, script_loaded, podcast_finalized, database, available_voices >>

\* --------------------------------------------------------------- audio
\* the lengths, in ms, the synthesis service returns for a line: in the workflow
\* specification, and in the assembly specification
SpeechMs == {400}
AssemblyMs == {400, 700}

\* AudioSegment.silent(duration=ms).  Every piece of an audio carries its
\* generation: how many times its samples were decoded from mp3, a lossy format
Silent(ms) ==
    << [kind |-> "silence", text |-> <<>>, voice_id |-> "", settings |-> NoSettings,
        ms |-> ms, generation |-> 0] >>

\* AudioSegment.from_mp3(bytes): mp3 bytes are held as the audio they encode, and
\* decoding them gives that audio one lossy generation on
FromMp3(mp3) == [i \in 1..Len(mp3) |-> [mp3[i] EXCEPT !.generation = @ + 1]]

\* len(audio): the length in ms
RECURSIVE AudioLen(_)
AudioLen(audio) == IF audio = <<>> THEN 0 ELSE Head(audio).ms + AudioLen(Tail(audio))

\* the lookups the handlers and generate_audio make for a speaker raise KeyError
\* unless the speaker has a voice, the voice is available and the speaker has settings
CanSynthesize(speaker) ==
    /\ config.podcasters[speaker] # NoVoice
    /\ config.podcasters[speaker] \in Range(VoiceNames)
    /\ config.has_vsps
    /\ config.voice_settings_per_speaker[speaker] # NoSettings

\* a synthesis with the default parameters, whatever the configuration holds
GenerateAudio_DefaultSettings(text, voice_id, speaker, ms) ==
    FromMp3(<< [kind |-> "speech", text |-> text, voice_id |-> voice_id,
                settings |-> DefaultSettings, ms |-> ms, generation |-> 0] >>)

\* generate_audio(text, voice_id, speaker), when the service answers with the mp3
\* of ms of speech
GenerateAudio(text, voice_id, speaker, ms) ==
    FromMp3(<< [kind |-> "speech", text |-> text, voice_id |-> voice_id,
                settings |-> config.voice_settings_per_speaker[speaker],
                ms |-> ms, generation |-> 0] >>)

\* the entry (f"Line {i+1}", audio) of line i, i counted from 1 here
ClipOfLine(i, ms) ==
    [label |-> i,
     audio |-> GenerateAudio(script[i].text, VoiceId(config.podcasters[script[i].speaker]),
                             script[i].speaker, ms)]

\* ------------------------------------------------- step_5: generate audio
\* a clip restored without audio: (label, None)
NoAudio == <<>>

\* the run draws clip i: every clip up to it has audio to play and a line to show
ClipDrawn(i) ==
    \A j \in 1..i :
        /\ audio_segments[j].audio # NoAudio
        /\ audio_segments[j].label - 1 < Len(script)

\* Generate All that forgets to empty the list first
GenerateAllOk_KeepsOld(durations) ==
    /\ OnStep(5)
    /\ \A i \in 1..Len(script) : CanSynthesize(script[i].speaker)
    /\ audio_segments' = audio_segments \o [i \in 1..Len(script) |-> ClipOfLine(i, durations[i])]
    /\ Done("generate_all", TRUE)
    /\ UNCHANGED << script, config, current_step, script_loaded, podcast_finalized, rendered,
                    input_format, company, podcast_title, database, available_voices >>

\* "Generate All Audio", every line synthesized
GenerateAllOk(durations) ==
    /\ OnStep(5)
    /\ \A i \in 1..Len(script) : CanSynthesize(script[i].speaker)
    /\ audio_segments' = [i \in 1..Len(script) |-> ClipOfLine(i, durations[i])]
    /\ Done("generate_all", TRUE)
    /\ UNCHANGED << script, config, current_step, script_loaded, podcast_finalized, rendered,
                    input_format, company, podcast_title, database, available_voices >>

\* "Generate All Audio", line k raises (a lookup, or the service): the list was
\* emptied and holds the clips appended before line k; the run ends there
GenerateAllFail(k, durations) ==
    /\ OnStep(5)
    /\ k \in 1..Len(script)
    /\ \A i \in 1..(k - 1) : CanSynthesize(script[i].speaker)
    /\ audio_segments' = [i \in 1..(k - 1) |-> ClipOfLine(i, durations[i])]
    /\ rendered' = 0
    /\ Done("generate_all", FALSE)
    /\ UNCHANGED << script, config, current_step, script_loaded, podcast_finalized,
                    input_format, company, podcast_title, database, available_voices >>

\* int(label.split()[1]) - 1: the line a clip's label names (lines counted from 1 here)
LineIndex(label) == label

\* a regenerate that appends the new clip
AppendClip(segments, i, clip) == Append(segments, clip)

\* audio_segments[i] = (label, new_audio)
ReplaceClip(segments, i, clip) == [segments EXCEPT ![i] = clip]

\* "Regenerate Line N" of clip i with the text of its text area, then st.rerun()
RegenerateOk(i, new_text, ms) ==
    /\ OnStep(5)
    /\ i \in 1..Len(audio_segments)
    /\ ClipDrawn(i)
    /\ LET line_index == LineIndex(audio_segments[i].label)
           speaker == script[line_index].speaker
       IN  /\ CanSynthesize(speaker)
           /\ script' = [script EXCEPT ![line_index].text = new_text]
           /\ audio_segments' =
                ReplaceClip(audio_segments, i,
                    [label |-> audio_segments[i].label,
                     audio |-> GenerateAudio(new_text, VoiceId(config.podcasters[speaker]),
                                             speaker, ms)])
    /\ Edited("regenerate", i)
    /\ UNCHANGED << config, current_step, script_loaded, podcast_finalized, rendered,
                    input_format, company, podcast_title, database, available_voices >>

\* a regenerate that stores the new text before it calls generate_audio
RegenerateFail_TextFirst(i, new_text) ==
    /\ OnStep(5)
    /\ i \in 1..Len(audio_segments)
    /\ ClipDrawn(i)
    /\ script' = [script EXCEPT ![LineIndex(audio_segments[i].label)].text = new_text]
    /\ rendered' = 0
    /\ lastOp' = [op |-> "regenerate", ok |-> FALSE, arg |-> i]
    /\ UNCHANGED << config, audio_segments, current_step, script_loaded, podcast_finalized,
                    edits, input_format, company, podcast_title, database, available_voices >>

\* "Regenerate Line N" of clip i, generate_audio raises: the run ends there
RegenerateFail(i, new_text) ==
    /\ OnStep(5)
    /\ i \in 1..Len(audio_segments)
    /\ ClipDrawn(i)
    /\ rendered' = 0
    /\ lastOp' = [op |-> "regenerate", ok |-> FALSE, arg |-> i]
    /\ UNCHANGED edits
    /\ UNCHANGED << session, input_format, company, podcast_title, database, available_voices >>

\* "Proceed to Finalization": update_step(6); drawn after the last clip
ProceedToFinalize ==
    /\ OnStep(5)
    /\ ClipDrawn(Len(audio_segments))
    /\ Run(6, script, config)
    /\ Done("navigate", TRUE)
    /\ UNCHANGED << audio_segments, script_loaded, podcast_finalized, database, available_voices >>

\* ------------------------------------------------------ step_6: assembly
\* the last clip tested before the first
BucketOf_LastFirst(i, n) ==
    IF i = n THEN "outro"
    ELSE IF i = 1 THEN "intro"
    ELSE "hosts_discussion"

\* the bucket clip i of n goes to, i counted from 1 here: the first clip is the
\* intro, else the last clip is the outro, else the clip is hosts' discussion
BucketOf(i, n) ==
    IF i = 1 THEN "intro"
    ELSE IF i = n THEN "outro"
    ELSE "hosts_discussion"

\* the pause left out
WithoutPause(audio) == audio

\* audio + pause
WithPause(audio) == audio \o Silent(PauseMs)

\* the loop of "Finalize Podcast" from clip i on, buckets holding the three sums so far
RECURSIVE FoldClips(_, _, _)
FoldClips(segments, i, buckets) ==
    IF i > Len(segments) THEN buckets
    ELSE FoldClips(segments, i + 1,
                   [buckets EXCEPT ![BucketOf(i, Len(segments))] =
                        @ \o WithPause(segments[i].audio)])

\* intro_audio, hosts_discussion and outro_audio after the loop
Assemble(segments) ==
    FoldClips(segments, 1, [intro |-> <<>>, hosts_discussion |-> <<>>, outro |-> <<>>])

\* an export without the test for an empty bucket
ExportAlways(audio) == [is_none |-> FALSE, mp3 |-> audio]

\* audio.export(format="mp3").read() if len(audio) > 0 else None
ExportOrNone(audio) ==
    IF AudioLen(audio) > 0
    THEN [is_none |-> FALSE, mp3 |-> audio]
    ELSE [is_none |-> TRUE, mp3 |-> <<>>]

\* f"{company.strip()} {podcast_title.strip()}"
PodcastTitle == Strip(company) \o << " " >> \o Strip(podcast_title)

\* ------------------------------------------------------------ database.py
\* save_podcast: `if intro_audio:` and its like, on bytes or None
Provided(bytes) == ~bytes.is_none

SegmentRow(podcast_id, segment_type, bytes) ==
    [podcast_id |-> podcast_id, segment_type |-> segment_type, audio_data |-> bytes.mp3]

\* the rows save_podcast inserts into podcast_segments
SegmentRows(podcast_id, intro_audio, hosts_audio, outro_audio) ==
    {SegmentRow(podcast_id, "intro", intro_audio) : x \in {1} \cap {IF Provided(intro_audio) THEN 1 ELSE 0}}
    \cup {SegmentRow(podcast_id, "hosts_discussion", hosts_audio) :
            x \in {1} \cap {IF Provided(hosts_audio) THEN 1 ELSE 0}}
    \cup {SegmentRow(podcast_id, "outro", outro_audio) :
            x \in {1} \cap {IF Provided(outro_audio) THEN 1 ELSE 0}}

\* get_podcast_segments(podcast_id): segment_type -> audio_data
GetPodcastSegments(podcast_id) ==
    LET rows == {r \in podcast_segments : r.podcast_id = podcast_id}
    IN  [t \in {r.segment_type : r \in rows} |->
            (CHOOSE r \in rows : r.segment_type = t).audio_data]

\* the id AUTOINCREMENT gives the next podcast
NextPodcastId == podcast_seq + 1

\* ------------------------------------------------------ step_6: finalize
CompanyInputs == {<<>>, << " " >>, << "Acme", " " >>}
TitleInputs == {<<>>, << " ", "Show" >>}

\* the Company input
SetCompany(text) ==
    /\ OnStep(6)
    /\ text # company
    /\ company' = text
    /\ Done("input", TRUE)
    /\ UNCHANGED << session, rendered, input_format, podcast_title, database, available_voices >>

\* the Podcast Title input
SetTitle(text) ==
    /\ OnStep(6)
    /\ text # podcast_title
    /\ podcast_title' = text
    /\ Done("input", TRUE)
    /\ UNCHANGED << session, rendered, input_format, company, database, available_voices >>

\* the fields tested without strip()
FinalizeGate_NoStrip ==
    /\ OnStep(6)
    /\ audio_segments # <<>>
    /\ company # <<>>
    /\ podcast_title # <<>>

\* neither warning of step_6 is shown: audio exists and both fields are filled
FinalizeGate ==
    /\ OnStep(6)
    /\ audio_segments # <<>>
    /\ Strip(company) # <<>>
    /\ Strip(podcast_title) # <<>>

\* the button drawn whatever podcast_finalized holds
FinalizeEnabled_IgnoresFlag == FinalizeGate

\* the button "Finalize Podcast" is drawn
FinalizeEnabled == FinalizeGate /\ ~podcast_finalized

\* the button "Proceed to Play and Download" is drawn
ProceedToPlayEnabled == FinalizeGate /\ podcast_finalized

\* "Finalize Podcast", save_podcast commits; then st.rerun()
FinalizeOk ==
    /\ FinalizeEnabled
    /\ LET buckets == Assemble(audio_segments)
       IN  /\ podcasts' = podcasts \cup {[id |-> NextPodcastId, title |-> PodcastTitle]}
           /\ podcast_segments' = podcast_segments \cup
                SegmentRows(NextPodcastId, ExportOrNone(buckets.intro),
                            ExportOrNone(buckets.hosts_discussion),
                            ExportOrNone(buckets.outro))
    /\ podcast_seq' = NextPodcastId
    /\ podcast_finalized' = TRUE
    /\ Done("finalize", TRUE)
    /\ UNCHANGED << script, config, audio_segments, current_step, script_loaded, rendered,
                    input_format, company, podcast_title, progress, progress_seq,
                    available_voices >>

\* a failed save that leaves the podcast row of the first INSERT behind
FinalizeFail_KeepsRow ==
    /\ FinalizeEnabled
    /\ podcasts' = podcasts \cup {[id |-> NextPodcastId, title |-> PodcastTitle]}
    /\ podcast_seq' = NextPodcastId
    /\ Done("finalize", FALSE)
    /\ UNCHANGED << session, rendered, input_format, company, podcast_title,
                    podcast_segments, progress, progress_seq, available_voices >>

\* "Finalize Podcast", the export or save_podcast raises: rolled back, reported
FinalizeFail ==
    /\ FinalizeEnabled
    /\ Done("finalize", FALSE)
    /\ UNCHANGED << session, rendered, input_format, company, podcast_title, database,
                    available_voices >>

\* "Proceed to Play and Download", then st.rerun()
ProceedToPlay ==
    /\ ProceedToPlayEnabled
    /\ Run(7, script, config)
    /\ Done("proceed_play", TRUE)
    /\ UNCHANGED << audio_segments, script_loaded, podcast_finalized, database, available_voices >>

\* --------------------------------------------- step_5: progress snapshots
\* base64.b64encode(bytes).decode() and base64.b64decode(text)
B64Encode(bytes) == [b64 |-> bytes]
B64Decode(text) == text.b64

\* json.dumps(value) and json.loads(text); a NULL column
JsonDumps(value) == [is_null |-> FALSE, json |-> value]
JsonLoads(text) == text.json
SqlNull == [is_null |-> TRUE, json |-> <<>>]

\* (label, b64 of the mp3 export) if the audio has a length, else (label, None)
SerializeClip(clip) ==
    IF AudioLen(clip.audio) > 0
    THEN [label |-> clip.label, is_none |-> FALSE, b64_audio |-> B64Encode(clip.audio)]
    ELSE [label |-> clip.label, is_none |-> TRUE, b64_audio |-> B64Encode(<<>>)]

\* audio_segments_serialized of "Save Progress"
SerializeClips(segments) == [i \in 1..Len(segments) |-> SerializeClip(segments[i])]

\* (label, AudioSegment.from_mp3(b64decode(b64_audio))), or (label, None)
DeserializeClip(entry) ==
    [label |-> entry.label,
     audio |-> IF ~entry.is_none THEN FromMp3(B64Decode(entry.b64_audio)) ELSE NoAudio]

\* save_progress: the row inserted for (name, script, config, audio_segments)
ProgressRow(progress_id, name, scr, cfg, serialized) ==
    [id |-> progress_id,
     name |-> name,
     script |-> JsonDumps(scr),
     config |-> JsonDumps(cfg),
     audio_segments |-> IF serialized # <<>> THEN JsonDumps(serialized) ELSE SqlNull]

\* load_progress_by_id, for a row of the table
LoadedFrom(row) ==
    [script |-> JsonLoads(row.script),
     config |-> JsonLoads(row.config),
     audio_segments |-> IF ~row.audio_segments.is_null
                        THEN JsonLoads(row.audio_segments)
                        ELSE <<>>]

LoadProgressById(progress_id) == LoadedFrom(CHOOSE row \in progress : row.id = progress_id)

\* the clip list "Load Selected Progress" puts in the session
DeserializeClips(loaded) ==
    [i \in 1..Len(loaded.audio_segments) |-> DeserializeClip(loaded.audio_segments[i])]

\* what the operator may type as the progress name
ProgressNames == {<< " " >>, << "draft", " " >>}

\* "Save Progress to App" with the name typed; the run goes on drawing the step
SaveProgress(progress_name) ==
    /\ OnStep(5)
    /\ progress_seq < MaxSnapshots
    /\ IF Strip(progress_name) # <<>>
       THEN /\ progress' = progress \cup
                    {ProgressRow(progress_seq + 1, Strip(progress_name), script, config,
                                 SerializeClips(audio_segments))}
            /\ progress_seq' = progress_seq + 1
            /\ Done("save_progress", TRUE)
       ELSE /\ UNCHANGED << progress, progress_seq >>
            /\ Done("save_progress", FALSE)
    /\ UNCHANGED << session, rendered, input_format, company, podcast_title,
                    podcasts, podcast_segments, podcast_seq, available_voices >>

\* "Load Selected Progress" of the row selected, then st.rerun()
LoadProgress(progress_id) ==
    /\ OnStep(5)
    /\ \E row \in progress : row.id = progress_id
    /\ LET loaded == LoadProgressById(progress_id)
       IN  /\ audio_segments' = DeserializeClips(loaded)
           /\ Run(5, loaded.script, loaded.config)
    /\ Edited("load_progress", progress_id)
    /\ UNCHANGED << script_loaded, podcast_finalized, database, available_voices >>

\* "Delete Selected Progress" of the row selected: delete_progress, then st.rerun()
DeleteProgress(progress_id) ==
    /\ OnStep(5)
    /\ \E row \in progress : row.id = progress_id
    /\ progress' = {row \in progress : row.id # progress_id}
    /\ Done("delete_progress", TRUE)
    /\ UNCHANGED << session, rendered, input_format, company, podcast_title,
                    podcasts, podcast_segments, podcast_seq, progress_seq,
                    available_voices >>

\* ------------------------------------------------- step_7: the library
\* get_all_podcasts: the rows, newest first (created_at grows with the id)
RECURSIVE NewestFirst(_)
NewestFirst(rows) ==
    IF rows = {} THEN <<>>
    ELSE LET newest == CHOOSE r \in rows : \A q \in rows : q.id <= r.id
         IN  << newest >> \o NewestFirst(rows \ {newest})

GetAllPodcasts == NewestFirst(podcasts)

\* title.split()[0]: the first word of a title
FirstWord(title) == Head(LStrip(title))

\* str.lower(), word by word
Lower(word) ==
    CASE word = "Acme" -> "acme"
      [] word = "Beta" -> "beta"
      [] word = "Show" -> "show"
      [] OTHER -> word

LowerText(text) == [i \in 1..Len(text) |-> Lower(text[i])]

\* the options of "Filter by company:" besides the empty one
CompanyNames == {FirstWord(p.title) : p \in podcasts}

\* selected_company.lower() in p['title'].lower()
MatchesCompany(p, selected_company) ==
    \/ selected_company = ""
    \/ Lower(selected_company) \in Range(LowerText(p.title))

\* filtered_podcasts: the podcasts that match, in the order of get_all_podcasts
RECURSIVE FilterPodcasts(_, _)
FilterPodcasts(all, selected_company) ==
    IF all = <<>> THEN <<>>
    ELSE (IF MatchesCompany(Head(all), selected_company) THEN << Head(all) >> ELSE <<>>)
         \o FilterPodcasts(Tail(all), selected_company)

\* selected_podcast = podcasts[selected_idx], selected_idx being the position
\* of the selected option among the filtered ones (positions counted from 1 here)
SelectedPodcast(selected_option) == GetAllPodcasts[selected_option]

\* a podcast is selected: step_7 draws its card and the button "Delete Podcast"
PodcastSelected(selected_company, selected_option) ==
    /\ OnStep(7)
    /\ podcasts # {}
    /\ selected_company \in {""} \cup CompanyNames
    /\ selected_option \in 1..Len(FilterPodcasts(GetAllPodcasts, selected_company))

\* a delete that leaves the segments in their table
SegmentsKept(podcast_id) == podcast_segments

\* DELETE FROM podcast_segments WHERE podcast_id = ?
SegmentsWithout(podcast_id) == {r \in podcast_segments : r.podcast_id # podcast_id}

\* DELETE FROM podcasts WHERE id = ?
PodcastsWithout(podcast_id) == {p \in podcasts : p.id # podcast_id}

\* "Delete Podcast": delete_podcast commits both deletes, then st.rerun()
DeletePodcastOk(selected_company, selected_option) ==
    /\ PodcastSelected(selected_company, selected_option)
    /\ LET podcast_id == SelectedPodcast(selected_option).id
       IN  /\ podcast_segments' = SegmentsWithout(podcast_id)
           /\ podcasts' = PodcastsWithout(podcast_id)
           /\ lastOp' = [op |-> "delete_podcast", ok |-> TRUE, arg |-> podcast_id]
    /\ Run(7, script, config)
    /\ UNCHANGED << audio_segments, script_loaded, podcast_finalized, podcast_seq,
                    progress, progress_seq, available_voices, edits >>

\* "Delete Podcast", delete_podcast raises: rolled back, and reported by st.error
DeletePodcastFail(selected_company, selected_option) ==
    /\ PodcastSelected(selected_company, selected_option)
    /\ lastOp' = [op |-> "delete_podcast", ok |-> FALSE,
                  arg |-> SelectedPodcast(selected_option).id]
    /\ UNCHANGED << session, rendered, input_format, company, podcast_title, database,
                    available_voices, edits >>

\* ------------------------------------------------------- the specification
Steps == 2..7

Next ==
    \/ \E k \in Steps : Sidebar(k)
    \/ Rerun
    \/ \E format \in {"JSON", "Text Format"} : SelectFormat(format)
    \/ \E doc \in JsonInputs : LoadJson(doc)
    \/ \E text \in TextInputs : LoadText(text)
    \/ \E doc \in JsonInputs : ImportFile(doc)
    \/ ProceedToEdit
    \/ \E i \in 1..MaxLines, speaker \in SpeakerInputs : EditSpeaker(i, speaker)
    \/ \E i \in 1..MaxLines, text \in TextEdits : EditText(i, text)
    \/ \E i \in 1..MaxLines : AddBelow(i)
    \/ \E i \in 1..MaxLines : DeleteDialog(i)
    \/ ProceedToConfig
    \/ \E p \in Speakers, voice \in VoiceNameInputs : SetVoice(p, voice)
    \/ \E p \in Speakers, settings \in SettingsInputs : SetParams(p, settings)
    \/ ProceedToAudio
    \/ \E durations \in [1..MaxLines -> SpeechMs] : GenerateAllOk(durations)
    \/ \E k \in 1..MaxLines, durations \in [1..MaxLines -> SpeechMs] : GenerateAllFail(k, durations)
    \/ \E i \in 1..MaxLines, text \in TextEdits, ms \in SpeechMs : RegenerateOk(i, text, ms)
    \/ \E i \in 1..MaxLines, text \in TextEdits : RegenerateFail(i, text)
    \/ ProceedToFinalize
    \/ \E text \in CompanyInputs : SetCompany(text)
    \/ \E text \in TitleInputs : SetTitle(text)
    \/ FinalizeOk
    \/ FinalizeFail
    \/ ProceedToPlay

Spec == Init /\ [][Next]_vars

\* ------------------------------------------- the assembly specification
\* the text of line i of the scripts assembled: i words
WordsOfLine(i) == [j \in 1..i |-> "Hi"]

\* the script of n lines: a presenter's line, then the host's
ScriptOfLength(n) ==
    [i \in 1..n |-> Line(IF i = 1 THEN Presenter ELSE Host1, WordsOfLine(i), i)]

\* a session on the Finalize step with the audio of an n-line script generated,
\* for every n up to MaxClips and every length the service may give each clip
InitAssembly ==
    /\ available_voices = AvailableVoices
    /\ \E n \in 0..MaxClips : script = ScriptOfLength(n)
    /\ config = Step4Render([podcasters |-> [p \in Speakers |-> NoVoice],
                             has_vsps |-> FALSE,
                             voice_settings_per_speaker |-> [p \in Speakers |-> NoSettings]],
                            script)
    /\ \E durations \in [1..Len(script) -> AssemblyMs] :
          audio_segments = [i \in 1..Len(script) |-> ClipOfLine(i, durations[i])]
    /\ current_step = 6
    /\ script_loaded = TRUE
    /\ podcast_finalized = FALSE
    /\ rendered = 6
    /\ input_format = "Text Format"
    /\ company = <<>>
    /\ podcast_title = <<>>
    /\ podcasts = {}
    /\ podcast_segments = {}
    /\ podcast_seq = 0
    /\ progress = {}
    /\ progress_seq = 0
    /\ edits = 0
    /\ lastOp = [op |-> "navigate", ok |-> TRUE, arg |-> 0]

NextAssembly ==
    \/ \E text \in CompanyInputs : SetCompany(text)
    \/ \E text \in TitleInputs : SetTitle(text)
    \/ FinalizeOk
    \/ FinalizeFail
    \/ ProceedToPlay

SpecAssembly == InitAssembly /\ [][NextAssembly]_vars

\* ------------------------------------------- the progress specification
\* the voice configuration a session starts with
EmptyConfig ==
    [podcasters |-> [p \in Speakers |-> NoVoice],
     has_vsps |-> FALSE,
     voice_settings_per_speaker |-> [p \in Speakers |-> NoSettings]]

\* the row an earlier session saved while its directory held the voice Hamid:
\* one line of Host 1, its voice, its settings and its clip
EarlierProgress ==
    ProgressRow(1, << "first" >>,
        << Line(Host1, Hi, 1) >>,
        [podcasters |-> [p \in Speakers |-> IF p = Host1 THEN << "Hamid" >> ELSE NoVoice],
         has_vsps |-> TRUE,
         voice_settings_per_speaker |->
            [p \in Speakers |-> IF p = Host1 THEN DefaultSettings ELSE NoSettings]],
        << SerializeClip(
             [label |-> 1,
              audio |-> FromMp3(<< [kind |-> "speech", text |-> Hi, voice_id |-> "v-hamid",
                                    settings |-> DefaultSettings, ms |-> 400,
                                    generation |-> 0] >>)]) >>)

\* a session that loaded and configured a script of 1..MaxLines lines and stands
\* on the Generate Audio step, over a progress table that is empty or holds
\* the row of the earlier session
InitProgress ==
    /\ \E n \in 1..MaxLines : script = ScriptOfLength(n)
    /\ available_voices = AvailableVoices
    /\ config = Step4Render(EmptyConfig, script)
    /\ audio_segments = <<>>
    /\ current_step = 5
    /\ script_loaded = TRUE
    /\ podcast_finalized = FALSE
    /\ rendered = 5
    /\ input_format = "Text Format"
    /\ company = <<>>
    /\ podcast_title = <<>>
    /\ podcasts = {}
    /\ podcast_segments = {}
    /\ podcast_seq = 0
    /\ \E rows \in SUBSET {EarlierProgress} :
          /\ progress = rows
          /\ progress_seq = Cardinality(rows)
    /\ edits = 0
    /\ lastOp = [op |-> "navigate", ok |-> TRUE, arg |-> 0]

NextProgress ==
    \/ \E k \in {4, 5} : Sidebar(k)
    \/ Rerun
    \/ \E name \in ProgressNames : SaveProgress(name)
    \/ \E id \in 1..MaxSnapshots : LoadProgress(id)
    \/ \E id \in 1..MaxSnapshots : DeleteProgress(id)
    \/ \E durations \in [1..MaxLines -> SpeechMs] : GenerateAllOk(durations)
    \/ \E k \in 1..MaxLines, durations \in [1..MaxLines -> SpeechMs] : GenerateAllFail(k, durations)
    \/ \E i \in 1..MaxLines, text \in TextEdits, ms \in SpeechMs : RegenerateOk(i, text, ms)
    \/ \E i \in 1..MaxLines, text \in TextEdits : RegenerateFail(i, text)

SpecProgress == InitProgress /\ [][NextProgress]_vars

\* --------------------------------------------- the voices specification
\* the scripts of 1..MaxLines lines whose speakers are any of Speakers
SpeakerScripts ==
    UNION { { [i \in 1..n |-> Line(speakers[i], Hi, i)] : speakers \in [1..n -> Speakers] } :
            n \in 1..MaxLines }

\* a session that loaded a script and stands on the Edit step, Configuration
\* not yet visited, with any of the directories
InitVoices ==
    /\ script \in SpeakerScripts
    /\ available_voices \in VoiceDirectories
    /\ config = EmptyConfig
    /\ audio_segments = <<>>
    /\ current_step = 3
    /\ script_loaded = TRUE
    /\ podcast_finalized = FALSE
    /\ rendered = 3
    /\ input_format = "Text Format"
    /\ company = <<>>
    /\ podcast_title = <<>>
    /\ podcasts = {}
    /\ podcast_segments = {}
    /\ podcast_seq = 0
    /\ progress = {}
    /\ progress_seq = 0
    /\ edits = 0
    /\ lastOp = [op |-> "navigate", ok |-> TRUE, arg |-> 0]

NextVoices ==
    \/ \E k \in {3, 4} : Sidebar(k)
    \/ ProceedToConfig
    \/ \E i \in 1..MaxLines, speaker \in SpeakerInputs : EditSpeaker(i, speaker)
    \/ \E p \in Speakers, voice \in VoiceNameInputs : SetVoice(p, voice)

SpecVoices == InitVoices /\ [][NextVoices]_vars

\* --------------------------------------------- the library specification
\* the titles of the podcasts earlier sessions saved
LibraryTitles == {<< "Acme", " ", "Show" >>, << "Beta", " ", "Show" >>}

\* the companies the filter may be set to
CompanyFilterInputs == {"", "Acme", "Beta"}

\* the clips of an earlier session that finalized n clips
LibraryClips(n) ==
    [i \in 1..n |->
        [label |-> i,
         audio |-> FromMp3(<< [kind |-> "speech", text |-> WordsOfLine(i),
                               voice_id |-> "v-rachel", settings |-> DefaultSettings,
                               ms |-> 400, generation |-> 0] >>)]]

\* the rows save_podcast stored for a podcast of n clips
LibrarySegments(podcast_id, n) ==
    LET buckets == Assemble(LibraryClips(n))
    IN  SegmentRows(podcast_id, ExportOrNone(buckets.intro),
                    ExportOrNone(buckets.hosts_discussion), ExportOrNone(buckets.outro))

\* a new session that went to Play and Download by the sidebar, over a library
\* of up to MaxPodcasts podcasts of one to three clips saved by earlier
\* sessions, some of them deleted since
InitLibrary ==
    /\ script = <<>>
    /\ available_voices = AvailableVoices
    /\ config = EmptyConfig
    /\ audio_segments = <<>>
    /\ current_step = 7
    /\ script_loaded = FALSE
    /\ podcast_finalized = FALSE
    /\ rendered = 7
    /\ input_format = "Text Format"
    /\ company = <<>>
    /\ podcast_title = <<>>
    /\ \E n \in 1..MaxPodcasts :
          \E kept \in SUBSET (1..n), titles \in [1..n -> LibraryTitles],
             clips \in [1..n -> 1..3] :
              /\ podcast_seq = n
              /\ podcasts = {[id |-> i, title |-> titles[i]] : i \in kept}
              /\ podcast_segments = UNION {LibrarySegments(i, clips[i]) : i \in kept}
    /\ progress = {}
    /\ progress_seq = 0
    /\ edits = 0
    /\ lastOp = [op |-> "navigate", ok |-> TRUE, arg |-> 0]

NextLibrary ==
    \/ \E selected_company \in CompanyFilterInputs, selected_option \in 1..MaxPodcasts :
          DeletePodcastOk(selected_company, selected_option)
    \/ \E selected_company \in CompanyFilterInputs, selected_option \in 1..MaxPodcasts :
          DeletePodcastFail(selected_company, selected_option)

SpecLibrary == InitLibrary /\ [][NextLibrary]_vars

\* ------------------------------------------- the synthesis specification
\* the configurations the Configure step can leave for a script: the defaults
\* of its first run, or one speaker's sliders or voice moved
ConfiguredFor(scr) ==
    LET defaults == Step4Render(EmptyConfig, scr)
    IN  {defaults}
        \cup {[defaults EXCEPT !.voice_settings_per_speaker[p] = settings] :
                    p \in Podcasters(scr), settings \in SettingsInputs}
        \cup {[defaults EXCEPT !.podcasters[p] = voice] :
                    p \in Podcasters(scr), voice \in Range(VoiceNames)}

\* the clips Generate All made for a script while the configuration was cfg
GeneratedUnder(cfg, scr) ==
    [i \in 1..Len(scr) |->
        [label |-> i,
         audio |-> FromMp3(<< [kind |-> "speech", text |-> scr[i].text,
                               voice_id |-> VoiceId(cfg.podcasters[scr[i].speaker]),
                               settings |-> cfg.voice_settings_per_speaker[scr[i].speaker],
                               ms |-> 400, generation |-> 0] >>)]]

\* a session that generated the clips of a script of 1..MaxLines lines under
\* the default configuration, went back to Configure, left the configuration
\* as it was or moved one speaker's sliders or voice, and is on the Generate
\* Audio step again
InitSynthesis ==
    /\ available_voices = AvailableVoices
    /\ \E n \in 1..MaxLines : script = ScriptOfLength(n)
    /\ config \in ConfiguredFor(script)
    /\ audio_segments = GeneratedUnder(Step4Render(EmptyConfig, script), script)
    /\ current_step = 5
    /\ script_loaded = TRUE
    /\ podcast_finalized = FALSE
    /\ rendered = 5
    /\ input_format = "Text Format"
    /\ company = <<>>
    /\ podcast_title = <<>>
    /\ podcasts = {}
    /\ podcast_segments = {}
    /\ podcast_seq = 0
    /\ progress = {}
    /\ progress_seq = 0
    /\ edits = 0
    /\ lastOp = [op |-> "navigate", ok |-> TRUE, arg |-> 0]

NextSynthesis ==
    \/ \E k \in {4, 5} : Sidebar(k)
    \/ \E p \in Speakers, voice \in VoiceNameInputs : SetVoice(p, voice)
    \/ \E p \in Speakers, settings \in SettingsInputs : SetParams(p, settings)
    \/ ProceedToAudio
    \/ \E durations \in [1..MaxLines -> SpeechMs] : GenerateAllOk(durations)
    \/ \E k \in 1..MaxLines, durations \in [1..MaxLines -> SpeechMs] : GenerateAllFail(k, durations)
    \/ \E i \in 1..MaxLines, text \in TextEdits, ms \in SpeechMs : RegenerateOk(i, text, ms)

SpecSynthesis == InitSynthesis /\ [][NextSynthesis]_vars

\* ---------------------------------------------- the editor specification
\* the scripts of 1..MaxLines lines step_3 has drawn: every line has its uid,
\* and the speaker its text gives it
DrawnScripts ==
    UNION { { Step3Render([i \in 1..n |-> Line(speakers[i], texts[i], i)]) :
                speakers \in [1..n -> SpeakerInputs], texts \in [1..n -> TextEdits] } :
            n \in 1..MaxLines }

\* the script after the operator typed into Dialog text areas of a drawn script
TypedInto(scr) ==
    { EditorRun(scr, SpeakerWidgets(scr), texts) : texts \in [1..Len(scr) -> TextEdits] }

\* a session on the Edit Script step: the script was drawn, and the operator
\* has or has not typed into its Dialog text areas since
InitEditor ==
    /\ available_voices = AvailableVoices
    /\ \E drawn \in DrawnScripts : script \in TypedInto(drawn)
    /\ config = EmptyConfig
    /\ audio_segments = <<>>
    /\ current_step = 3
    /\ script_loaded = TRUE
    /\ podcast_finalized = FALSE
    /\ rendered = 3
    /\ input_format = "Text Format"
    /\ company = <<>>
    /\ podcast_title = <<>>
    /\ podcasts = {}
    /\ podcast_segments = {}
    /\ podcast_seq = 0
    /\ progress = {}
    /\ progress_seq = 0
    /\ edits = 0
    /\ lastOp = [op |-> "navigate", ok |-> TRUE, arg |-> 0]

NextEditor ==
    \/ \E k \in {3, 4} : Sidebar(k)
    \/ \E i \in 1..MaxLines, speaker \in SpeakerInputs : EditSpeaker(i, speaker)
    \/ \E i \in 1..MaxLines, text \in TextEdits : EditText(i, text)
    \/ \E i \in 1..MaxLines : AddBelow(i)
    \/ \E i \in 1..MaxLines : DeleteDialog(i)
    \/ ProceedToConfig

SpecEditor == InitEditor /\ [][NextEditor]_vars

\* ================================================================ claims
\* the only piece of a freshly synthesized clip
SpeechOf(clip) == clip.audio[1]

\* the speech pieces of an audio, in order
IsSpeech(piece) == piece.kind = "speech"
Speech(audio) == SelectSeq(audio, IsSpeech)

\* the audio of clips from..to of a clip list, one after the other
RECURSIVE ConcatClips(_, _, _)
ConcatClips(segments, from, to) ==
    IF from > to THEN <<>>
    ELSE segments[from].audio \o ConcatClips(segments, from + 1, to)

\* a text with something in it besides white space
NonBlank(text) == \E i \in 1..Len(text) : text[i] \notin {" ", "\n"}

\* C1: right after a successful Generate All the cache holds exactly one clip
\* per script line, in script order: clip i is labelled "Line i" (counted from
\* 1) and is the speech synthesized from line i's text with the voice and the
\* settings of line i's speaker, whatever the cache held before.
C1_GenerateAllOnePerLine ==
    (lastOp.op = "generate_all" /\ lastOp.ok) =>
        /\ Len(audio_segments) = Len(script)
        /\ \A i \in 1..Len(script) :
              /\ audio_segments[i].label = i
              /\ Len(audio_segments[i].audio) = 1
              /\ SpeechOf(audio_segments[i]).kind = "speech"
              /\ SpeechOf(audio_segments[i]).text = script[i].text
              /\ SpeechOf(audio_segments[i]).voice_id =
                    VoiceId(config.podcasters[script[i].speaker])
              /\ SpeechOf(audio_segments[i]).settings =
                    config.voice_settings_per_speaker[script[i].speaker]

\* a successful Generate All of a two-line script whose speakers differ
C1_Witness ==
    /\ lastOp.op = "generate_all" /\ lastOp.ok
    /\ Len(script) = 2
    /\ script[1].speaker # script[2].speaker
    /\ Len(audio_segments) = 2

\* C2 (as claimed): a Generate All that fails leaves the clip cache as it was
\* before the operation.
C2_FailedGenerateAllKeepsCache ==
    [][(lastOp'.op = "generate_all" /\ ~lastOp'.ok) => audio_segments' = audio_segments]_vars

\* C3: a successful regenerate of clip i replaces the audio of clip i and the
\* text of script line i and nothing else: clip i keeps its label, every other
\* clip and line, line i's speaker and uid, the voice configuration, the
\* current step and the finalized flag are as before.
C3_RegenerateFrame ==
    [][(lastOp'.op = "regenerate" /\ lastOp'.ok) =>
          LET i == lastOp'.arg
          IN  /\ Len(audio_segments') = Len(audio_segments)
              /\ audio_segments'[i].label = audio_segments[i].label
              /\ \A j \in 1..Len(audio_segments) :
                    j # i => audio_segments'[j] = audio_segments[j]
              /\ Len(script') = Len(script)
              /\ script'[i].speaker = script[i].speaker
              /\ script'[i].uid = script[i].uid
              /\ script'[i].text = SpeechOf(audio_segments'[i]).text
              /\ \A j \in 1..Len(script) : j # i => script'[j] = script[j]
              /\ config' = config
              /\ current_step' = current_step
              /\ podcast_finalized' = podcast_finalized]_vars

\* a regenerate that gave one of two clips a text its line did not have when
\* the other clip was generated
C3_Witness ==
    /\ lastOp.op = "regenerate" /\ lastOp.ok
    /\ Len(audio_segments) = 2
    /\ Len(script) = 2
    /\ script[lastOp.arg].text = IntroHi
    /\ SpeechOf(audio_segments[lastOp.arg]).text = IntroHi

\* C4: a regenerate whose synthesis fails changes nothing of the session: the
\* clip and the text of its line stay as they were, and so do the other clips
\* and lines, the configuration, the step, the flags and the stored podcasts.
C4_FailedRegenerateChangesNothing ==
    [][(lastOp'.op = "regenerate" /\ ~lastOp'.ok) =>
          /\ audio_segments' = audio_segments
          /\ script' = script
          /\ config' = config
          /\ current_step' = current_step
          /\ script_loaded' = script_loaded
          /\ podcast_finalized' = podcast_finalized
          /\ database' = database]_vars

\* a failed regenerate of the second of two clips
C4_Witness ==
    /\ lastOp.op = "regenerate" /\ ~lastOp.ok
    /\ lastOp.arg = 2
    /\ Len(audio_segments) = 2

\* the clips that belong in each bucket by position alone, as a range from..to
\* of the clip list of n clips
FirstOf(bucket, n) ==
    CASE bucket = "intro" -> 1
      [] bucket = "hosts_discussion" -> 2
      [] bucket = "outro" -> IF n >= 2 THEN n ELSE n + 1

LastOf(bucket, n) ==
    CASE bucket = "intro" -> IF n >= 1 THEN 1 ELSE 0
      [] bucket = "hosts_discussion" -> n - 1
      [] bucket = "outro" -> n

CountOf(bucket, n) ==
    IF LastOf(bucket, n) >= FirstOf(bucket, n)
    THEN LastOf(bucket, n) - FirstOf(bucket, n) + 1
    ELSE 0

BucketNames == {"intro", "hosts_discussion", "outro"}

\* the podcast the last Finalize saved
SavedSegments == GetPodcastSegments(podcast_seq)

JustFinalized == lastOp.op = "finalize" /\ lastOp.ok

\* C5: the clip list is partitioned by position only.  The speech of the intro
\* bucket is clip 1 alone, that of the outro bucket clip N alone (N >= 2), that
\* of the discussion bucket clips 2..N-1 in cache order; with one clip outro and
\* discussion are empty, with none all three are; and the segments a Finalize
\* stores are these buckets.
C5_PartitionByPosition ==
    LET n == Len(audio_segments)
        buckets == Assemble(audio_segments)
    IN  /\ Speech(buckets.intro) = IF n >= 1 THEN audio_segments[1].audio ELSE <<>>
        /\ Speech(buckets.outro) = IF n >= 2 THEN audio_segments[n].audio ELSE <<>>
        /\ Speech(buckets.hosts_discussion) = ConcatClips(audio_segments, 2, n - 1)
        /\ n = 1 => buckets.outro = <<>> /\ buckets.hosts_discussion = <<>>
        /\ n = 0 => buckets.intro = <<>> /\ buckets.outro = <<>> /\ buckets.hosts_discussion = <<>>
        /\ JustFinalized =>
              \A t \in DOMAIN SavedSegments : SavedSegments[t] = buckets[t]

\* a Finalize of four clips, the two of the discussion of different lengths
C5_Witness ==
    /\ JustFinalized
    /\ Len(audio_segments) = 4
    /\ AudioLen(audio_segments[2].audio) # AudioLen(audio_segments[3].audio)
    /\ Speech(SavedSegments["hosts_discussion"]) =
          audio_segments[2].audio \o audio_segments[3].audio

\* C6: in every bucket each clip is followed by exactly 300 ms of silence, the
\* last clip too, so the bucket lasts the sum of its clips plus 300 ms per clip;
\* the stored segment is the bucket, untrimmed.
C6_PauseAfterEveryClip ==
    LET n == Len(audio_segments)
        buckets == Assemble(audio_segments)
    IN  \A t \in BucketNames :
            /\ Len(buckets[t]) = 2 * CountOf(t, n)
            /\ \A k \in 1..CountOf(t, n) :
                  /\ buckets[t][2 * k - 1] = SpeechOf(audio_segments[FirstOf(t, n) + k - 1])
                  /\ buckets[t][2 * k].kind = "silence"
                  /\ buckets[t][2 * k].ms = 300
            /\ AudioLen(buckets[t]) =
                  AudioLen(ConcatClips(audio_segments, FirstOf(t, n), LastOf(t, n)))
                    + 300 * CountOf(t, n)
            /\ (JustFinalized /\ t \in DOMAIN SavedSegments) =>
                  AudioLen(SavedSegments[t]) = AudioLen(buckets[t])

\* a Finalize of three clips whose stored intro lasts its clip plus 300 ms
C6_Witness ==
    /\ JustFinalized
    /\ Len(audio_segments) = 3
    /\ AudioLen(audio_segments[1].audio) = 700
    /\ AudioLen(SavedSegments["intro"]) = 1000

\* C7: the podcast a Finalize saved has a segment for a bucket exactly when a
\* clip was folded into that bucket (intro: N >= 1, outro: N >= 2, discussion:
\* N >= 3), one row per such bucket, each with audio of non-zero length.
C7_SegmentIffBucketNonEmpty ==
    JustFinalized =>
        LET n == Len(audio_segments)
            rows == {r \in podcast_segments : r.podcast_id = podcast_seq}
        IN  /\ \E p \in podcasts : p.id = podcast_seq
            /\ \A t \in BucketNames :
                  /\ (t \in DOMAIN SavedSegments) <=> (CountOf(t, n) >= 1)
                  /\ Cardinality({r \in rows : r.segment_type = t}) =
                        IF CountOf(t, n) >= 1 THEN 1 ELSE 0
            /\ \A r \in rows : r.segment_type \in BucketNames /\ AudioLen(r.audio_data) > 0

\* a Finalize of two clips: an intro and an outro are stored, no discussion
C7_Witness ==
    /\ JustFinalized
    /\ Len(audio_segments) = 2
    /\ DOMAIN SavedSegments = {"intro", "outro"}

\* C8: on the Finalize step neither "Finalize Podcast" nor "Proceed to Play and
\* Download" can be pressed unless the clip cache is non-empty and company and
\* title both hold something besides white space.
C8_FinalizeGated ==
    (ENABLED FinalizeOk \/ ENABLED FinalizeFail \/ ENABLED ProceedToPlay) =>
        /\ current_step = 6
        /\ audio_segments # <<>>
        /\ NonBlank(company)
        /\ NonBlank(podcast_title)

\* Finalize can be pressed, with fields that need trimming
C8_Witness ==
    /\ ENABLED FinalizeOk
    /\ company = << "Acme", " " >>
    /\ podcast_title = << " ", "Show" >>
    /\ Len(audio_segments) = 2

\* C9: once the episode is finalized it stays finalized and no further podcast
\* is saved; a podcast is saved only by a session that had saved none.
C9_FinalizeOnce ==
    [][/\ podcast_finalized => podcast_finalized'
       /\ podcast_seq' # podcast_seq =>
             /\ ~podcast_finalized
             /\ podcast_finalized'
             /\ podcast_seq = 0
             /\ podcast_seq' = 1
       /\ podcast_finalized => ~ENABLED FinalizeOk]_vars

\* a finalized episode whose clip was regenerated afterwards, back on the
\* Finalize step with both fields filled
C9_Witness ==
    /\ podcast_finalized
    /\ OnStep(6)
    /\ edits >= 1
    /\ NonBlank(company) /\ NonBlank(podcast_title)
    /\ SavedSegments["intro"][1] # SpeechOf(audio_segments[1])

\* C10 (as claimed): the step from InputScript to EditScript is neither offered
\* (the Proceed button) nor taken (a file import) while the script is empty.
C10_ForwardNeedsScript ==
    /\ ProceedToEditEnabled => script # <<>>
    /\ (lastOp.op = "import_file" /\ lastOp.ok) => script # <<>>

\* the three loads of the Input step
LoadOps == {"load_json", "load_text", "import_file"}

\* C11: a script load that fails (JSON that does not decode, that is not a list
\* of records with speaker and text, or a text that yields no line) changes
\* nothing: script, voice configuration, clip cache, current step and finalized
\* flag are after the failed load what they were before it.
C11_FailedLoadChangesNothing ==
    [][(lastOp'.op \in LoadOps /\ ~lastOp'.ok) =>
          /\ script' = script
          /\ config' = config
          /\ audio_segments' = audio_segments
          /\ current_step' = current_step
          /\ script_loaded' = script_loaded
          /\ podcast_finalized' = podcast_finalized]_vars

\* a text that yields no line, refused by a session that holds a two-line
\* script, its clips and a finalized episode
C11_Witness ==
    /\ lastOp.op = "load_text" /\ ~lastOp.ok
    /\ Len(script) = 2
    /\ Len(audio_segments) = 2
    /\ podcast_finalized

\* C12 (as claimed): a successful load of a script, by any of the three loads
\* of the Input step, leaves the clip cache empty.
C12_ReloadClearsCache ==
    [][(lastOp'.op \in LoadOps /\ lastOp'.ok) => audio_segments' = <<>>]_vars

\* C13 (as claimed): wherever the speaker of a line is read (the editor, the
\* speakers collected by Configure, the voice looked up for synthesis) a line
\* whose text starts with "Intro:" or "Outro:" has the speaker Presenter.
C13_MarkerLinesArePresenter ==
    rendered \in {3, 4, 5} =>
        \A i \in 1..Len(script) :
            HasMarker(script[i].text) => script[i].speaker = Presenter

\* C14 (as claimed): whenever synthesis is attempted, by Generate All or by a
\* regenerate, every speaker of the script has a voice and a settings entry.
C14_SpeakersConfiguredAtSynthesis ==
    [][lastOp'.op \in {"generate_all", "regenerate"} =>
          \A i \in 1..Len(script) :
              /\ config.podcasters[script[i].speaker] # NoVoice
              /\ config.has_vsps
              /\ config.voice_settings_per_speaker[script[i].speaker] # NoSettings]_vars

\* no two lines of the script carry the same uid
UidsDistinct ==
    \A i, j \in 1..Len(script) :
        (i # j /\ script[i].uid # 0) => script[i].uid # script[j].uid

\* C15 (as claimed): every line of the script has a uid from the load on, and
\* no two lines have the same uid.
C15_UidFromLoadOn ==
    /\ \A i \in 1..Len(script) : script[i].uid # 0
    /\ UidsDistinct

\* C15 (amended): every line the editor has drawn has a uid, given to the lines
\* lacking one when the Edit step is drawn and not at the load; and insert and
\* delete never leave two lines with the same uid.
C15_UidOnceInEditor ==
    /\ rendered = 3 => \A i \in 1..Len(script) : script[i].uid # 0
    /\ UidsDistinct

\* a line inserted below a loaded line: two lines, two uids
C15_Witness ==
    /\ lastOp.op = "add_below"
    /\ Len(script) = 2
    /\ script[1].uid # 0 /\ script[2].uid # 0
    /\ script[1].uid # script[2].uid

\* C20 (as claimed): a clip cache that is not empty holds one clip per script
\* line, and every label "Line k" names a line of the script.
C20_OneClipPerLine ==
    audio_segments # <<>> =>
        /\ Len(audio_segments) = Len(script)
        /\ \A i \in 1..Len(audio_segments) : audio_segments[i].label \in 1..Len(script)

\* C16 (as claimed): the snapshot just saved, loaded by its id, gives back the
\* script, the configuration and the clip list of the session that saved it:
\* as many clips, the same labels in the same order, each with the audio it had.
C16_SnapshotRoundTrip ==
    (lastOp.op = "save_progress" /\ lastOp.ok) =>
        LET loaded == LoadProgressById(progress_seq)
            restored == DeserializeClips(loaded)
        IN  /\ loaded.script = script
            /\ loaded.config = config
            /\ Len(restored) = Len(audio_segments)
            /\ \A i \in 1..Len(restored) :
                  /\ restored[i].label = audio_segments[i].label
                  /\ restored[i].audio = audio_segments[i].audio

\* the positions of the directory whose voice name holds the speaker's preferred name
PreferredVoices(p) ==
    {i \in 1..Len(available_voices) :
        HasDefaultVoice(p) /\ DefaultVoiceName(p) \in Range(available_voices[i].name)}

\* C17: Configure never fails to give a speaker a voice, and the voice depends
\* on the speaker and the directory only.  A speaker met for the first time
\* gets a voice named after its preferred name when the speaker has a default
\* mapping and the directory holds such a voice; else, and without a mapping,
\* the first voice of the directory; with one voice in the directory every
\* speaker gets that voice.
C17_VoiceDefaulting ==
    [][rendered' = 4 =>
          \A p \in Podcasters(script') :
              LET voice == config'.podcasters[p]
              IN  /\ voice \in Range(VoiceNames)
                  /\ config.podcasters[p] = NoVoice =>
                        /\ PreferredVoices(p) # {} =>
                              \E i \in PreferredVoices(p) : voice = available_voices[i].name
                        /\ PreferredVoices(p) = {} => voice = available_voices[1].name
                        /\ Len(available_voices) = 1 => voice = available_voices[1].name]_vars

\* Configure drawn for the first time for a Presenter, whose preferred voice is
\* the second of the directory, and a speaker without a name, who has no default
C17_Witness ==
    /\ OnStep(4)
    /\ edits = 0
    /\ available_voices = AvailableVoices
    /\ Podcasters(script) = {Presenter, Blank}
    /\ config.podcasters[Presenter] = << "Eric", "Pro" >>
    /\ config.podcasters[Blank] = << "Rachel" >>

\* C18 (as claimed): on the Generate Audio step the voice assigned to a
\* speaker of the script is one of the available voices (it was silently
\* replaced by the first available voice otherwise), so that no Generate All
\* and no regenerate fails for a missing voice.
C18_MissingVoiceNeverFatal ==
    OnStep(5) =>
        \A i \in 1..Len(script) :
            config.podcasters[script[i].speaker] # NoVoice =>
                config.podcasters[script[i].speaker] \in Range(VoiceNames)

\* C19: a delete of a podcast by its id that commits removes the podcast and
\* every segment of it: the podcast is no longer listed and has no segments,
\* and every other podcast and every segment of another podcast is as before;
\* a delete that fails removes neither the podcast nor any segment.
C19_DeleteCascades ==
    [][lastOp'.op = "delete_podcast" =>
          LET podcast_id == lastOp'.arg
          IN  IF lastOp'.ok
              THEN /\ \A p \in podcasts' : p.id # podcast_id
                   /\ \A r \in podcast_segments' : r.podcast_id # podcast_id
                   /\ \A p \in podcasts : p.id # podcast_id => p \in podcasts'
                   /\ \A r \in podcast_segments :
                         r.podcast_id # podcast_id => r \in podcast_segments'
                   /\ podcasts' \subseteq podcasts
                   /\ podcast_segments' \subseteq podcast_segments
              ELSE /\ podcasts' = podcasts
                   /\ podcast_segments' = podcast_segments]_vars

\* the second of three podcasts deleted: the two others keep their segments
C19_Witness ==
    /\ lastOp.op = "delete_podcast" /\ lastOp.ok
    /\ lastOp.arg = 2
    /\ {p.id : p \in podcasts} = {1, 3}
    /\ DOMAIN GetPodcastSegments(2) = {}
    /\ DOMAIN GetPodcastSegments(1) = {"intro", "hosts_discussion", "outro"}
    /\ DOMAIN GetPodcastSegments(3) = {"intro"}

\* the handlers that only move between the steps
NavigationOps == {"navigate", "proceed_play"}

\* C21 (as claimed): a sidebar jump or a Proceed changes the current step only:
\* script, voice configuration, clip cache and finalized flag are as before.
C21_NavigationChangesStepOnly ==
    [][lastOp'.op \in NavigationOps =>
          /\ script' = script
          /\ config' = config
          /\ audio_segments' = audio_segments
          /\ podcast_finalized' = podcast_finalized]_vars

\* C21 (amended): the sidebar button of every step is enabled in every state, and
\* neither it nor a Proceed changes the clip cache, the finalized flag or the
\* stored podcasts, nor the number, order and texts of the lines.  Drawing the
\* step entered may complete the rest: the Edit step gives a uid to each line
\* lacking one and the speaker Presenter to each line whose text starts with a
\* marker; Configure gives each speaker of the script lacking them a voice and
\* settings, and an available voice to one whose voice is not available.  No
\* other step changes script or configuration, and an existing uid, a speaker
\* of a line without marker, an available voice and existing settings stay.
C21_NavigationKeepsLaterState ==
    [][/\ \A k \in Steps : is_enabled(k)
       /\ lastOp'.op \in NavigationOps =>
             /\ audio_segments' = audio_segments
             /\ podcast_finalized' = podcast_finalized
             /\ database' = database
             /\ rendered' # 3 => script' = script
             /\ rendered' # 4 => config' = config
             /\ rendered' = 3 =>
                   /\ Len(script') = Len(script)
                   /\ \A i \in 1..Len(script) :
                         /\ script'[i].text = script[i].text
                         /\ script'[i].uid # 0
                         /\ script[i].uid # 0 => script'[i].uid = script[i].uid
                         /\ script'[i].speaker =
                               IF HasMarker(script[i].text) THEN Presenter
                               ELSE script[i].speaker
             /\ rendered' = 4 =>
                   \A p \in Speakers :
                       /\ config.podcasters[p] \in Range(VoiceNames) =>
                             config'.podcasters[p] = config.podcasters[p]
                       /\ config.voice_settings_per_speaker[p] # NoSettings =>
                             config'.voice_settings_per_speaker[p] =
                                config.voice_settings_per_speaker[p]
                       /\ p \in Podcasters(script) =>
                             /\ config'.podcasters[p] \in Range(VoiceNames)
                             /\ config'.voice_settings_per_speaker[p] # NoSettings]_vars

\* the Input step entered again by the sidebar with two clips in the cache and
\* the episode finalized
C21_Witness ==
    /\ lastOp.op = "navigate"
    /\ OnStep(2)
    /\ Len(audio_segments) = 2
    /\ podcast_finalized
    /\ podcast_seq = 1

\* the episode in memory is not the one the session finalized: no edit was
\* made, the cache holds the clips Generate All made for the script in memory,
\* and the first of them speaks a text the saved intro does not hold, so another
\* script was loaded
FreshEpisodeGenerated ==
    /\ podcast_finalized
    /\ edits = 0
    /\ script # <<>>
    /\ Len(audio_segments) = Len(script)
    /\ \A i \in 1..Len(script) : SpeechOf(audio_segments[i]).text = script[i].text
    /\ SpeechOf(audio_segments[1]).text # Speech(SavedSegments["intro"])[1].text

\* C22 (as claimed): after a Finalize, once a script was loaded and Generate
\* All has run for it, "Finalize Podcast" can be pressed again on the Finalize
\* step with company and title filled.
C22_FinalizeAgainAfterLoad ==
    (FinalizeGate /\ FreshEpisodeGenerated) => FinalizeEnabled

\* C23: a Finalize whose export or save raises commits nothing: the store holds
\* the podcast and segment rows it held before and gives the next podcast the
\* same id, script, config, clip cache and current step are unchanged, the
\* finalized flag is still false and the button "Finalize Podcast" is still drawn
C23_FailedFinalizeCommitsNothing ==
    [][(lastOp'.op = "finalize" /\ ~lastOp'.ok) =>
            /\ podcasts' = podcasts
            /\ podcast_segments' = podcast_segments
            /\ podcast_seq' = podcast_seq
            /\ script' = script
            /\ config' = config
            /\ audio_segments' = audio_segments
            /\ current_step' = current_step
            /\ ~podcast_finalized'
            /\ FinalizeEnabled']_vars

\* a Finalize failed on an episode of three clips and can be retried
C23_Witness ==
    /\ lastOp.op = "finalize"
    /\ ~lastOp.ok
    /\ Len(audio_segments) = 3
    /\ podcasts = {}
    /\ podcast_segments = {}
    /\ FinalizeEnabled

\* the speaker's voice and parameters in the configuration are the ones the
\* clip was synthesized with
UsesConfig(clip, speaker, cfg) ==
    /\ SpeechOf(clip).voice_id = VoiceId(cfg.podcasters[speaker])
    /\ SpeechOf(clip).settings = cfg.voice_settings_per_speaker[speaker]

\* C24: every clip a Generate All appends, and the clip a regenerate stores, is
\* synthesized with the voice and the stability/similarity/style parameters the
\* configuration holds for the line's speaker when the button is pressed,
\* whatever the clip it replaces was synthesized with
C24_SynthesisUsesCurrentConfig ==
    [][/\ lastOp'.op = "generate_all" =>
            \A i \in 1..Len(audio_segments') :
                UsesConfig(audio_segments'[i], script[i].speaker, config)
       /\ (lastOp'.op = "regenerate" /\ lastOp'.ok) =>
            LET clip == audio_segments'[lastOp'.arg]
            IN  UsesConfig(clip, script[LineIndex(clip.label)].speaker, config)]_vars

\* line 2 was regenerated after its speaker's sliders or voice were moved in
\* Configure: its clip carries the new values, the clip of line 1 the defaults
C24_Witness ==
    /\ lastOp.op = "regenerate"
    /\ lastOp.ok
    /\ lastOp.arg = 2
    /\ Len(audio_segments) = 2
    /\ SpeechOf(audio_segments[1]).settings = DefaultSettings
    /\ \/ SpeechOf(audio_segments[2]).settings \in SettingsInputs
       \/ SpeechOf(audio_segments[2]).voice_id # VoiceId(FirstVoice)
    /\ UsesConfig(audio_segments[2], script[2].speaker, config)

\* C25 (as claimed): "Add Dialog Below" of dialog i leaves one line more: the
\* lines up to i and the lines after i keep their order, uid, speaker and text,
\* and between them stands one blank line with a uid no line carried; "Delete
\* Dialog" of dialog i leaves one line less: every other line keeps its order,
\* uid, speaker and text.
C25_InsertDeleteKeepOtherLines ==
    [][/\ lastOp'.op = "add_below" =>
            LET i == lastOp'.arg
            IN  /\ Len(script') = Len(script) + 1
                /\ \A j \in 1..i : script'[j] = script[j]
                /\ \A j \in (i + 1)..Len(script) : script'[j + 1] = script[j]
                /\ script'[i + 1].speaker = Blank
                /\ script'[i + 1].text = <<>>
                /\ script'[i + 1].uid # 0
                /\ \A j \in 1..Len(script) : script[j].uid # script'[i + 1].uid
       /\ lastOp'.op = "delete_dialog" =>
            LET i == lastOp'.arg
            IN  /\ Len(script') = Len(script) - 1
                /\ \A j \in 1..(i - 1) : script'[j] = script[j]
                /\ \A j \in (i + 1)..Len(script) : script'[j - 1] = script[j]]_vars

\* C26 (as claimed): for every company filter and every option selected in the
\* filtered list, the podcast whose card and segments step_7 shows, and whose
\* id "Delete Podcast" passes to delete_podcast, is the podcast at the selected
\* position of the filtered list.
C26_SelectedPodcastIsTheOneShown ==
    \A selected_company \in CompanyFilterInputs, selected_option \in 1..MaxPodcasts :
        PodcastSelected(selected_company, selected_option) =>
            SelectedPodcast(selected_option) =
                FilterPodcasts(GetAllPodcasts, selected_company)[selected_option]

====
